---------------------------- MODULE Spec2Model ----------------------------
(***************************************************************************)
(* A model of hier_object.py: HierObject construction into the collection  *)
(* ALL_OBJ (image -> label -> list of objects) and the three passes of     *)
(* get_hierarchy: find_overlapping_objects, find_duplicates, find_parent.  *)
(*                                                                         *)
(* Numbers.  Callers give coordinates on a lattice of tenths (0.1, 0.2,    *)
(* ...), optionally off by a residue smaller than half of 10^-5, which     *)
(* round(x, 5) removes.  The object holds its coordinates in units of 1/20 *)
(* so that the centre (x0 + x1) / 2 is an integer; areas are in units of   *)
(* 1/400.  iou and iom are quotients rounded to five decimals and are held *)
(* in units of 10^-5 (0.5 is 50000).  On this lattice every rounded        *)
(* quantity other than a quotient has at most four decimals, so round(x,5) *)
(* only removes floating-point noise from it.                              *)
(*                                                                         *)
(* The collection.  Objects are kept in one heap, all, in construction     *)
(* order; all_obj[imageID][label] is the subsequence of the heap with that *)
(* imageID and label (ObjectList), and the insertion order of the dicts is *)
(* the order of first construction (ImageOrder, LabelOrder).  An Overlap's *)
(* obj member, a reference to the other object, is its position in the     *)
(* heap.  A member that may be None is None (the empty tuple) or Some(v).  *)
(* buckets holds the keys <<imageID, label>> of the lists that exist in    *)
(* all_obj, in the order the defaultdicts created them.                    *)
(***************************************************************************)
EXTENDS Integers, Sequences, FiniteSets, TLC

VARIABLES all, buckets, pc, child_parent_list, err

vars == <<all, buckets, pc, child_parent_list, err>>

(***************************************************************************)
(* Bounds of the model.                                                    *)
(***************************************************************************)
MaxObjs == 3

MaxPairs == 2

(***************************************************************************)
(* None and dicts.                                                         *)
(***************************************************************************)
None == <<>>

Some(v) == <<v>>

\* Python truth of a member holding None, True or False.
Truthy(o) == o # None /\ o[1]

\* d.get(k, default) on a dict d
DictGet(d, k, default) == IF k \in DOMAIN d THEN d[k] ELSE default

\* d[k] = v on a dict d
DictSet(d, k, v) == [l \in DOMAIN d \cup {k} |-> IF l = k THEN v ELSE d[l]]

\* d[k].append(v) on a defaultdict(list) d
DictAppend(d, k, v) == DictSet(d, k, Append(DictGet(d, k, <<>>), v))

(***************************************************************************)
(* Rounding: rn = lambda x: round(x, 5).                                   *)
(***************************************************************************)
\* A coordinate as given: n tenths plus r millionths, |r| < 5.  Rounded to
\* five decimals it is n tenths, held as 2n twentieths.
rn(c) == 2 * c.n

\* round(num / den, 5) in units of 10^-5, ties to even.
rn_quotient(num, den) ==
    LET q == (num * 100000) \div den
        r == (num * 100000) % den
    IN  IF 2 * r > den THEN q + 1
        ELSE IF 2 * r = den THEN q + (q % 2)
        ELSE q

Min(a, b) == IF a < b THEN a ELSE b

Max(a, b) == IF a > b THEN a ELSE b

(***************************************************************************)
(* The collection ALL_OBJ as a view of the heap.                           *)
(***************************************************************************)
\* all_obj[imageID][label]: the positions of its objects, in list order
RECURSIVE ObjectListFrom(_, _, _, _)
ObjectListFrom(heap, imageID, label, i) ==
    IF i > Len(heap) THEN <<>>
    ELSE IF heap[i].imageID = imageID /\ heap[i].label = label
         THEN <<i>> \o ObjectListFrom(heap, imageID, label, i + 1)
         ELSE ObjectListFrom(heap, imageID, label, i + 1)

ObjectList(heap, imageID, label) == ObjectListFrom(heap, imageID, label, 1)

\* the keys of all_obj, in insertion order
RECURSIVE ImageOrder(_, _)
ImageOrder(heap, i) ==
    IF i > Len(heap) THEN <<>>
    ELSE IF \E j \in 1..(i - 1) : heap[j].imageID = heap[i].imageID
         THEN ImageOrder(heap, i + 1)
         ELSE <<heap[i].imageID>> \o ImageOrder(heap, i + 1)

\* the keys of all_obj[imageID], in insertion order
RECURSIVE LabelOrder(_, _, _)
LabelOrder(heap, imageID, i) ==
    IF i > Len(heap) THEN <<>>
    ELSE IF heap[i].imageID # imageID
            \/ \E j \in 1..(i - 1) : /\ heap[j].imageID = imageID
                                     /\ heap[j].label = heap[i].label
         THEN LabelOrder(heap, imageID, i + 1)
         ELSE <<heap[i].label>> \o LabelOrder(heap, imageID, i + 1)

(***************************************************************************)
(* HierObject.__init__ and parse.                                          *)
(***************************************************************************)
\* parse: the members set from the annotation row, and whether its
\* assertions hold
parse(obj) ==
    LET x0 == rn(obj.XMin)
        x1 == rn(obj.XMax)
        y0 == rn(obj.YMin)
        y1 == rn(obj.YMax)
    IN  [label |-> obj.LabelName, imageID |-> obj.ImageID,
         x0 |-> x0, x1 |-> x1, y0 |-> y0, y1 |-> y1,
         w |-> x1 - x0, h |-> y1 - y0,
         ok |-> (x1 - x0 > 0) /\ (y1 - y0 > 0)]

\* __init__ taking the index from the number of all objects
HierObjectHeapIndex(heap, obj) ==
    LET p == parse(obj)
        area == p.w * p.h
    IN  IF ~p.ok \/ ~(area > 0)
        THEN [all |-> heap, key |-> None, err |-> "AssertionError"]
        ELSE [all |-> Append(heap,
                 [label |-> p.label, imageID |-> p.imageID,
                  x0 |-> p.x0, x1 |-> p.x1, y0 |-> p.y0, y1 |-> p.y1,
                  w |-> p.w, h |-> p.h,
                  xc |-> (p.x0 + p.x1) \div 2,
                  yc |-> (p.y0 + p.y1) \div 2,
                  area |-> area,
                  index |-> Len(heap),
                  overlap |-> None, duplicate |-> None,
                  parent |-> None, children |-> None]),
              key |-> Some(<<p.imageID, p.label>>),
              err |-> "none"]

\* __init__ looking up all_obj[imageID][label], which creates the list,
\* before the assertions are made
HierObjectLookupFirst(heap, obj) ==
    LET p == parse(obj)
        area == p.w * p.h
    IN  IF ~p.ok \/ ~(area > 0)
        THEN [all |-> heap, key |-> Some(<<p.imageID, p.label>>),
              err |-> "AssertionError"]
        ELSE [all |-> Append(heap,
                 [label |-> p.label, imageID |-> p.imageID,
                  x0 |-> p.x0, x1 |-> p.x1, y0 |-> p.y0, y1 |-> p.y1,
                  w |-> p.w, h |-> p.h,
                  xc |-> (p.x0 + p.x1) \div 2,
                  yc |-> (p.y0 + p.y1) \div 2,
                  area |-> area,
                  index |-> Len(ObjectList(heap, p.imageID, p.label)),
                  overlap |-> None, duplicate |-> None,
                  parent |-> None, children |-> None]),
              key |-> Some(<<p.imageID, p.label>>),
              err |-> "none"]

\* __init__: the heap after HierObject(obj, all_obj), the key of the list
\* all_obj[imageID][label] that line 108 looked up (None when the line was
\* not reached), and the error raised
HierObject(heap, obj) ==
    LET p == parse(obj)
        area == p.w * p.h
    IN  IF ~p.ok \/ ~(area > 0)
        THEN [all |-> heap, key |-> None, err |-> "AssertionError"]
        ELSE [all |-> Append(heap,
                 [label |-> p.label, imageID |-> p.imageID,
                  x0 |-> p.x0, x1 |-> p.x1, y0 |-> p.y0, y1 |-> p.y1,
                  w |-> p.w, h |-> p.h,
                  xc |-> (p.x0 + p.x1) \div 2,
                  yc |-> (p.y0 + p.y1) \div 2,
                  area |-> area,
                  index |-> Len(ObjectList(heap, p.imageID, p.label)),
                  overlap |-> None, duplicate |-> None,
                  parent |-> None, children |-> None]),
              key |-> Some(<<p.imageID, p.label>>),
              err |-> "none"]

\* a lookup of all_obj[imageID][label]: the defaultdicts create the list
\* when the key is new
Lookup(keys, key) ==
    IF \E k \in 1..Len(keys) : keys[k] = key THEN keys ELSE Append(keys, key)

(***************************************************************************)
(* Pairwise geometry.                                                      *)
(***************************************************************************)
\* has_intersection taking boxes that only touch as intersecting
has_intersection_closed(self, other) ==
    LET w == Min(self.x1, other.x1) - Max(self.x0, other.x0)
        h == Min(self.y1, other.y1) - Max(self.y0, other.y0)
    IN  (w >= 0) /\ (h >= 0)

has_intersection(self, other) ==
    LET w == Min(self.x1, other.x1) - Max(self.x0, other.x0)
        h == Min(self.y1, other.y1) - Max(self.y0, other.y0)
    IN  (w > 0) /\ (h > 0)

is_inside(self, other) ==
    /\ self.x0 >= other.x0
    /\ self.x1 <= other.x1
    /\ self.y0 >= other.y0
    /\ self.y1 <= other.y1

\* center_is_inside taking a centre on the boundary as inside
center_is_inside_closed(self, other) ==
    /\ self.xc >= other.x0
    /\ self.xc <= other.x1
    /\ self.yc >= other.y0
    /\ self.yc <= other.y1

center_is_inside(self, other) ==
    /\ self.xc > other.x0
    /\ self.xc < other.x1
    /\ self.yc > other.y0
    /\ self.yc < other.y1

intersection_area(self, other) ==
    LET w == Min(self.x1, other.x1) - Max(self.x0, other.x0)
        h == Min(self.y1, other.y1) - Max(self.y0, other.y0)
    IN  IF (w <= 0) \/ (h <= 0) THEN 0 ELSE w * h

(***************************************************************************)
(* find_overlapping_objects and compare.                                   *)
(***************************************************************************)
\* the Overlap namedtuple with the union taken as the sum of the areas
OverlapNoSubtract(heap, i1, i2) ==
    LET obj1 == heap[i1]
        obj2 == heap[i2]
        intersection == intersection_area(obj1, obj2)
    IN  [index |-> obj2.index,
         self_inside_other |-> is_inside(obj1, obj2),
         center_of_self |-> center_is_inside(obj1, obj2),
         other_inside_self |-> is_inside(obj2, obj1),
         center_of_other |-> center_is_inside(obj2, obj1),
         intersection |-> intersection,
         iou |-> rn_quotient(intersection, obj1.area + obj2.area),
         iom |-> rn_quotient(intersection, Min(obj1.area, obj2.area)),
         obj |-> i2]

\* the Overlap namedtuple with iom taken over the area of obj1
OverlapOwnArea(heap, i1, i2) ==
    LET obj1 == heap[i1]
        obj2 == heap[i2]
        intersection == intersection_area(obj1, obj2)
    IN  [index |-> obj2.index,
         self_inside_other |-> is_inside(obj1, obj2),
         center_of_self |-> center_is_inside(obj1, obj2),
         other_inside_self |-> is_inside(obj2, obj1),
         center_of_other |-> center_is_inside(obj2, obj1),
         intersection |-> intersection,
         iou |-> rn_quotient(intersection,
                             obj1.area + obj2.area - intersection),
         iom |-> rn_quotient(intersection, obj1.area),
         obj |-> i2]

\* the Overlap namedtuple obj1 saves about obj2 (positions i1 and i2)
Overlap(heap, i1, i2) ==
    LET obj1 == heap[i1]
        obj2 == heap[i2]
        intersection == intersection_area(obj1, obj2)
    IN  [index |-> obj2.index,
         self_inside_other |-> is_inside(obj1, obj2),
         center_of_self |-> center_is_inside(obj1, obj2),
         other_inside_self |-> is_inside(obj2, obj1),
         center_of_other |-> center_is_inside(obj2, obj1),
         intersection |-> intersection,
         iou |-> rn_quotient(intersection,
                             obj1.area + obj2.area - intersection),
         iom |-> rn_quotient(intersection, Min(obj1.area, obj2.area)),
         obj |-> i2]

\* compare putting a fact at the front of the list
compare_at_front(heap, i1, i2) ==
    IF has_intersection(heap[i1], heap[i2])
    THEN [heap EXCEPT
            ![i1].overlap =
                Some(DictSet(@[1], heap[i2].label,
                             <<Overlap(heap, i1, i2)>>
                                 \o DictGet(@[1], heap[i2].label, <<>>))),
            ![i2].overlap =
                Some(DictSet(@[1], heap[i1].label,
                             <<Overlap(heap, i2, i1)>>
                                 \o DictGet(@[1], heap[i1].label, <<>>)))]
    ELSE heap

\* compare(obj1, obj2): the heap after it
compare(heap, i1, i2) ==
    IF has_intersection(heap[i1], heap[i2])
    THEN [heap EXCEPT
            ![i1].overlap = Some(DictAppend(@[1], heap[i2].label,
                                            Overlap(heap, i1, i2))),
            ![i2].overlap = Some(DictAppend(@[1], heap[i1].label,
                                            Overlap(heap, i2, i1)))]
    ELSE heap

\* flat: the objects of an image, label by label
RECURSIVE FlatFrom(_, _, _, _)
FlatFrom(heap, imageID, labels, k) ==
    IF k > Len(labels) THEN <<>>
    ELSE ObjectList(heap, imageID, labels[k])
         \o FlatFrom(heap, imageID, labels, k + 1)

Flat(heap, imageID) ==
    FlatFrom(heap, imageID, LabelOrder(heap, imageID, 1), 1)

\* the two loops over idx1 < idx2 (counted from 1)
RECURSIVE ComparePairs(_, _, _, _)
ComparePairs(heap, flat, idx1, idx2) ==
    IF idx1 >= Len(flat) THEN heap
    ELSE IF idx2 > Len(flat) THEN ComparePairs(heap, flat, idx1 + 1, idx1 + 2)
    ELSE ComparePairs(compare(heap, flat[idx1], flat[idx2]),
                      flat, idx1, idx2 + 1)

\* the body of the loop over images giving the objects of every image a
\* new overlap dict
OverlapImageResetAll(heap, imageID) ==
    LET fresh == [i \in 1..Len(heap) |->
                    [heap[i] EXCEPT !.overlap = Some(<<>>)]]
    IN  ComparePairs(fresh, Flat(fresh, imageID), 1, 2)

\* the body of the loop over images keeping the overlap dict an object
\* already has
OverlapImageKeepFacts(heap, imageID) ==
    LET fresh == [i \in 1..Len(heap) |->
                    IF heap[i].imageID = imageID /\ heap[i].overlap = None
                    THEN [heap[i] EXCEPT !.overlap = Some(<<>>)]
                    ELSE heap[i]]
    IN  ComparePairs(fresh, Flat(fresh, imageID), 1, 2)

\* the body of the loop over images
OverlapImage(heap, imageID) ==
    LET fresh == [i \in 1..Len(heap) |->
                    IF heap[i].imageID = imageID
                    THEN [heap[i] EXCEPT !.overlap = Some(<<>>)]
                    ELSE heap[i]]
    IN  ComparePairs(fresh, Flat(fresh, imageID), 1, 2)

RECURSIVE OverlapImages(_, _, _)
OverlapImages(heap, images, k) ==
    IF k > Len(images) THEN heap
    ELSE OverlapImages(OverlapImage(heap, images[k]), images, k + 1)

find_overlapping_objects(heap) ==
    [all |-> OverlapImages(heap, ImageOrder(heap, 1), 1), err |-> "none"]

(***************************************************************************)
(* find_duplicates and redundant_and_not_last.                             *)
(***************************************************************************)
threshold == 50000

\* redundant_and_not_last with iou >= threshold
redundant_at_threshold(self) ==
    LET over == DictGet(self.overlap[1], self.label, <<>>)
    IN  \E k \in 1..Len(over) :
            (over[k].iou >= threshold) /\ (over[k].index > self.index)

\* redundant_and_not_last giving priority to the smaller index
redundant_and_not_first(self) ==
    LET over == DictGet(self.overlap[1], self.label, <<>>)
    IN  \E k \in 1..Len(over) :
            (over[k].iou > threshold) /\ (over[k].index < self.index)

\* redundant_and_not_last without the test of the index
redundant_any_index(self) ==
    LET over == DictGet(self.overlap[1], self.label, <<>>)
    IN  \E k \in 1..Len(over) : over[k].iou > threshold

\* redundant_and_not_last returning from the loop at the first fact
redundant_first_fact(self) ==
    LET over == DictGet(self.overlap[1], self.label, <<>>)
    IN  /\ over # <<>>
        /\ (over[1].iou > threshold) /\ (over[1].index > self.index)

\* redundant_and_not_last without the test of the iou
redundant_any_iou(self) ==
    LET over == DictGet(self.overlap[1], self.label, <<>>)
    IN  \E k \in 1..Len(over) : over[k].index > self.index

\* self.overlap is a dict here
redundant_and_not_last(self) ==
    LET over == DictGet(self.overlap[1], self.label, <<>>)
    IN  \E k \in 1..Len(over) :
            (over[k].iou > threshold) /\ (over[k].index > self.index)

\* the objects in the order the nested loops over all_obj visit them
RECURSIVE DictOrderFrom(_, _, _)
DictOrderFrom(heap, images, k) ==
    IF k > Len(images) THEN <<>>
    ELSE Flat(heap, images[k]) \o DictOrderFrom(heap, images, k + 1)

DictOrder(heap) == DictOrderFrom(heap, ImageOrder(heap, 1), 1)

\* s is [all, err]; the loop stops at the first error raised
RECURSIVE DuplicatesFrom(_, _, _)
DuplicatesFrom(s, order, k) ==
    IF k > Len(order) \/ s.err # "none" THEN s
    ELSE LET i == order[k]
         IN  IF s.all[i].overlap = None
             THEN [s EXCEPT !.err = "AttributeError"]
             ELSE DuplicatesFrom(
                    [s EXCEPT !.all[i].duplicate =
                                Some(redundant_and_not_last(s.all[i]))],
                    order, k + 1)

find_duplicates(heap) ==
    DuplicatesFrom([all |-> heap, err |-> "none"], DictOrder(heap), 1)

(***************************************************************************)
(* find_parent and sort_for_parent.                                        *)
(***************************************************************************)
\* the sort key of sort_for_parent, compared as Python compares tuples
KeyLess(a, b) ==
    LET ia == IF a.self_inside_other THEN 1 ELSE 0
        ib == IF b.self_inside_other THEN 1 ELSE 0
        ca == IF a.center_of_self THEN 1 ELSE 0
        cb == IF b.center_of_self THEN 1 ELSE 0
    IN  \/ ia < ib
        \/ ia = ib /\ ca < cb
        \/ ia = ib /\ ca = cb /\ a.iom < b.iom

\* x put into a list sorted largest key first, behind the elements whose
\* key is not smaller (sorted() is stable, also with reverse=True)
RECURSIVE InsertSorted(_, _)
InsertSorted(sorted, x) ==
    IF sorted = <<>> THEN <<x>>
    ELSE IF KeyLess(Head(sorted), x) THEN <<x>> \o sorted
    ELSE <<Head(sorted)>> \o InsertSorted(Tail(sorted), x)

RECURSIVE SortFrom(_, _, _)
SortFrom(overlap_list, k, sorted) ==
    IF k > Len(overlap_list) THEN sorted
    ELSE SortFrom(overlap_list, k + 1, InsertSorted(sorted, overlap_list[k]))

sort_for_parent(overlap_list) == SortFrom(overlap_list, 1, <<>>)

\* the candidates without the test of center_of_self
CandidatesAnyOverlap(heap, child, parent_label) ==
    LET Keep(over) == ~Truthy(heap[over.obj].duplicate)
    IN  SelectSeq(DictGet(child.overlap[1], parent_label, <<>>), Keep)

\* the candidates without the test of the other object's duplicate flag
CandidatesWithDuplicates(heap, child, parent_label) ==
    LET Keep(over) == over.center_of_self
    IN  SelectSeq(DictGet(child.overlap[1], parent_label, <<>>), Keep)

\* the candidates of a child: lines 346 to 349
Candidates(heap, child, parent_label) ==
    LET Keep(over) == over.center_of_self /\ ~Truthy(heap[over.obj].duplicate)
    IN  SelectSeq(DictGet(child.overlap[1], parent_label, <<>>), Keep)

\* the candidates sorted and none dropped
SurvivingUnfiltered(parent_overlap_list) ==
    IF Len(parent_overlap_list) > 1
    THEN sort_for_parent(parent_overlap_list)
    ELSE parent_overlap_list

\* the candidates sorted and only the top-ranked kept when it holds the
\* child
SurvivingBest(parent_overlap_list) ==
    IF Len(parent_overlap_list) > 1
    THEN LET sorted == sort_for_parent(parent_overlap_list)
         IN  IF sorted[1].self_inside_other
             THEN <<sorted[1]>>
             ELSE sorted
    ELSE parent_overlap_list

\* the candidates left at line 359
Surviving(parent_overlap_list) ==
    IF Len(parent_overlap_list) > 1
    THEN LET sorted == sort_for_parent(parent_overlap_list)
             Inside(over) == over.self_inside_other
         IN  IF sorted[1].self_inside_other
             THEN SelectSeq(sorted, Inside)
             ELSE sorted
    ELSE parent_overlap_list

\* the assignment without line 362
AssignParentOnly(s, c, p, child_label, parent_label) ==
    [all |-> [s.all EXCEPT ![c].parent =
                Some(DictSet(@[1], parent_label, s.all[p].index))],
     err |-> "none"]

\* the assignment appending the child's index twice
AssignTwice(s, c, p, child_label, parent_label) ==
    LET heap1 == [s.all EXCEPT ![c].parent =
                    Some(DictSet(@[1], parent_label, s.all[p].index))]
    IN  IF heap1[p].children = None
        THEN [all |-> heap1, err |-> "TypeError"]
        ELSE [all |-> [heap1 EXCEPT ![p].children =
                         Some(DictAppend(DictAppend(@[1], child_label,
                                                    heap1[c].index),
                                         child_label, heap1[c].index))],
              err |-> "none"]

\* the assignment appending the child's index only when the list does not
\* hold it yet
AssignOnce(s, c, p, child_label, parent_label) ==
    LET heap1 == [s.all EXCEPT ![c].parent =
                    Some(DictSet(@[1], parent_label, s.all[p].index))]
        list  == IF heap1[p].children = None THEN <<>>
                 ELSE DictGet(heap1[p].children[1], child_label, <<>>)
    IN  IF heap1[p].children = None
        THEN [all |-> heap1, err |-> "TypeError"]
        ELSE IF \E k \in 1..Len(list) : list[k] = heap1[c].index
        THEN [all |-> heap1, err |-> "none"]
        ELSE [all |-> [heap1 EXCEPT ![p].children =
                         Some(DictAppend(@[1], child_label, heap1[c].index))],
              err |-> "none"]

\* lines 360 to 362: s is [all, err], c the child's position, p the parent's
Assign(s, c, p, child_label, parent_label) ==
    LET heap1 == [s.all EXCEPT ![c].parent =
                    Some(DictSet(@[1], parent_label, s.all[p].index))]
    IN  IF heap1[p].children = None
        THEN [all |-> heap1, err |-> "TypeError"]
        ELSE [all |-> [heap1 EXCEPT ![p].children =
                         Some(DictAppend(@[1], child_label, heap1[c].index))],
              err |-> "none"]

\* the body of the loop taking the top-ranked candidate of several
ParentOfChildFirst(s, c, child_label, parent_label) ==
    LET heap1 == IF s.all[c].parent = None
                 THEN [s.all EXCEPT ![c].parent = Some(<<>>)]
                 ELSE s.all
        child == heap1[c]
        s1    == [all |-> heap1, err |-> "none"]
    IN  IF Truthy(child.duplicate) THEN s1
        ELSE IF child.overlap = None
        THEN [s1 EXCEPT !.err = "AttributeError"]
        ELSE LET list == Surviving(Candidates(heap1, child, parent_label))
             IN  IF Len(list) >= 1
                 THEN Assign(s1, c, list[1].obj, child_label, parent_label)
                 ELSE s1

\* the body of the loop without the test of child.duplicate
ParentOfChildNoSkip(s, c, child_label, parent_label) ==
    LET heap1 == IF s.all[c].parent = None
                 THEN [s.all EXCEPT ![c].parent = Some(<<>>)]
                 ELSE s.all
        child == heap1[c]
        s1    == [all |-> heap1, err |-> "none"]
    IN  IF child.overlap = None
        THEN [s1 EXCEPT !.err = "AttributeError"]
        ELSE LET list == Surviving(Candidates(heap1, child, parent_label))
             IN  IF Len(list) = 1
                 THEN Assign(s1, c, list[1].obj, child_label, parent_label)
                 ELSE s1

\* the body of the loop taking an unset overlap member for an empty dict
ParentOfChildUnsetOverlap(s, c, child_label, parent_label) ==
    LET heap1 == IF s.all[c].parent = None
                 THEN [s.all EXCEPT ![c].parent = Some(<<>>)]
                 ELSE s.all
        child == heap1[c]
        s1    == [all |-> heap1, err |-> "none"]
    IN  IF Truthy(child.duplicate) \/ child.overlap = None THEN s1
        ELSE LET list == Surviving(Candidates(heap1, child, parent_label))
             IN  IF Len(list) = 1
                 THEN Assign(s1, c, list[1].obj, child_label, parent_label)
                 ELSE s1

\* the body of the loop sorting the child's list of facts in place
ParentOfChildSortInPlace(s, c, child_label, parent_label) ==
    LET heap0 == IF s.all[c].parent = None
                 THEN [s.all EXCEPT ![c].parent = Some(<<>>)]
                 ELSE s.all
        heap1 == IF /\ heap0[c].overlap # None
                    /\ ~Truthy(heap0[c].duplicate)
                    /\ parent_label \in DOMAIN heap0[c].overlap[1]
                 THEN [heap0 EXCEPT ![c].overlap =
                         Some(DictSet(@[1], parent_label,
                                      sort_for_parent(@[1][parent_label])))]
                 ELSE heap0
        child == heap1[c]
        s1    == [all |-> heap1, err |-> "none"]
    IN  IF Truthy(child.duplicate) THEN s1
        ELSE IF child.overlap = None
        THEN [s1 EXCEPT !.err = "AttributeError"]
        ELSE LET list == Surviving(Candidates(heap1, child, parent_label))
             IN  IF Len(list) = 1
                 THEN Assign(s1, c, list[1].obj, child_label, parent_label)
                 ELSE s1

\* the body of the loop over the children: lines 342 to 362
ParentOfChild(s, c, child_label, parent_label) ==
    LET heap1 == IF s.all[c].parent = None
                 THEN [s.all EXCEPT ![c].parent = Some(<<>>)]
                 ELSE s.all
        child == heap1[c]
        s1    == [all |-> heap1, err |-> "none"]
    IN  IF Truthy(child.duplicate) THEN s1
        ELSE IF child.overlap = None
        THEN [s1 EXCEPT !.err = "AttributeError"]
        ELSE LET list == Surviving(Candidates(heap1, child, parent_label))
             IN  IF Len(list) = 1
                 THEN Assign(s1, c, list[1].obj, child_label, parent_label)
                 ELSE s1

RECURSIVE ChildrenFrom(_, _, _, _, _)
ChildrenFrom(s, child_list, k, child_label, parent_label) ==
    IF k > Len(child_list) \/ s.err # "none" THEN s
    ELSE ChildrenFrom(ParentOfChild(s, child_list[k], child_label, parent_label),
                      child_list, k + 1, child_label, parent_label)

\* the body of the loop over images giving every object of the parent
\* label a new children dict
ParentImageFreshChildren(s, imageID, child_label, parent_label) ==
    LET child_list == ObjectList(s.all, imageID, child_label)
        all_parent_class == ObjectList(s.all, imageID, parent_label)
        InClass(i) == \E k \in 1..Len(all_parent_class) : all_parent_class[k] = i
        heap1 == [i \in 1..Len(s.all) |->
                    IF InClass(i)
                    THEN [s.all[i] EXCEPT !.children = Some(<<>>)]
                    ELSE s.all[i]]
    IN  IF child_list = <<>> \/ all_parent_class = <<>> THEN s
        ELSE ChildrenFrom([s EXCEPT !.all = heap1], child_list, 1,
                          child_label, parent_label)

\* the body of the loop over images without the tests of lines 331 and 334
ParentImageNoSkip(s, imageID, child_label, parent_label) ==
    LET child_list == ObjectList(s.all, imageID, child_label)
        all_parent_class == ObjectList(s.all, imageID, parent_label)
        InClass(i) == \E k \in 1..Len(all_parent_class) : all_parent_class[k] = i
        heap1 == [i \in 1..Len(s.all) |->
                    IF InClass(i) /\ s.all[i].children = None
                    THEN [s.all[i] EXCEPT !.children = Some(<<>>)]
                    ELSE s.all[i]]
    IN  ChildrenFrom([s EXCEPT !.all = heap1], child_list, 1,
                     child_label, parent_label)

\* the body of the loop over images: lines 330 to 362
ParentImage(s, imageID, child_label, parent_label) ==
    LET child_list == ObjectList(s.all, imageID, child_label)
        all_parent_class == ObjectList(s.all, imageID, parent_label)
        InClass(i) == \E k \in 1..Len(all_parent_class) : all_parent_class[k] = i
        heap1 == [i \in 1..Len(s.all) |->
                    IF InClass(i) /\ s.all[i].children = None
                    THEN [s.all[i] EXCEPT !.children = Some(<<>>)]
                    ELSE s.all[i]]
    IN  IF child_list = <<>> \/ all_parent_class = <<>> THEN s
        ELSE ChildrenFrom([s EXCEPT !.all = heap1], child_list, 1,
                          child_label, parent_label)

RECURSIVE ParentImages(_, _, _, _, _)
ParentImages(s, images, k, child_label, parent_label) ==
    IF k > Len(images) \/ s.err # "none" THEN s
    ELSE ParentImages(ParentImage(s, images[k], child_label, parent_label),
                      images, k + 1, child_label, parent_label)

find_parent(heap, child_label, parent_label) ==
    ParentImages([all |-> heap, err |-> "none"], ImageOrder(heap, 1), 1,
                 child_label, parent_label)

(***************************************************************************)
(* The callers' inputs.                                                    *)
(***************************************************************************)
Labels == {"Object", "Group"}

\* a coordinate on the lattice of tenths
Tenths(n) == [n |-> n, r |-> 0]

\* an annotation row with the box (x0, y0, x1, y1) in tenths
Row(imageID, label, box) ==
    [ImageID |-> imageID, LabelName |-> label,
     XMin |-> Tenths(box[1]), YMin |-> Tenths(box[2]),
     XMax |-> Tenths(box[3]), YMax |-> Tenths(box[4])]

\* the boxes of the example of __main__ and of init_3 of the unit tests
ExampleBoxes == {<<2, 3, 4, 5>>, <<1, 4, 3, 8>>, <<1, 1, 5, 5>>}

(***************************************************************************)
(* The program: objects are constructed, then get_hierarchy runs           *)
(* find_overlapping_objects, find_duplicates and find_parent for each pair *)
(* of its list.  child_parent_list holds the pairs find_parent has been    *)
(* run for; a list may end after any of its pairs.                         *)
(***************************************************************************)
Init ==
    /\ all = <<>>
    /\ buckets = <<>>
    /\ pc = "construct"
    /\ child_parent_list = <<>>
    /\ err = "none"

Construct(obj) ==
    /\ pc = "construct"
    /\ err = "none"
    /\ Len(all) < MaxObjs
    /\ LET s == HierObject(all, obj)
       IN  /\ all' = s.all
           /\ buckets' = IF s.key = None THEN buckets
                          ELSE Lookup(buckets, s.key[1])
           /\ err' = s.err
    /\ UNCHANGED <<pc, child_parent_list>>

FindOverlappingObjects ==
    /\ pc = "construct"
    /\ err = "none"
    /\ LET s == find_overlapping_objects(all)
       IN  all' = s.all /\ err' = s.err
    /\ pc' = "overlap"
    /\ UNCHANGED <<buckets, child_parent_list>>

FindDuplicates ==
    /\ pc = "overlap"
    /\ err = "none"
    /\ LET s == find_duplicates(all)
       IN  all' = s.all /\ err' = s.err
    /\ pc' = "duplicates"
    /\ UNCHANGED <<buckets, child_parent_list>>

\* find_parent called without waiting for find_duplicates
FindParentEarly(child_label, parent_label) ==
    /\ pc \in {"overlap", "duplicates", "parent"}
    /\ err = "none"
    /\ Len(child_parent_list) < MaxPairs
    /\ LET s == find_parent(all, child_label, parent_label)
       IN  all' = s.all /\ err' = s.err
    /\ pc' = "parent"
    /\ child_parent_list' = Append(child_parent_list,
                                   <<child_label, parent_label>>)
    /\ UNCHANGED buckets

FindParent(child_label, parent_label) ==
    /\ pc \in {"duplicates", "parent"}
    /\ err = "none"
    /\ Len(child_parent_list) < MaxPairs
    /\ LET s == find_parent(all, child_label, parent_label)
       IN  all' = s.all /\ err' = s.err
    /\ pc' = "parent"
    /\ child_parent_list' = Append(child_parent_list,
                                   <<child_label, parent_label>>)
    /\ UNCHANGED buckets

\* the example's three boxes, in one image
NextExample ==
    \/ \E label \in Labels, box \in ExampleBoxes :
            Construct(Row("i1", label, box))
    \/ FindOverlappingObjects
    \/ FindDuplicates
    \/ \E child_label \in Labels, parent_label \in Labels :
            FindParent(child_label, parent_label)

SpecExample == Init /\ [][NextExample]_vars

(***************************************************************************)
(* Boxes on a 3 x 3 grid of tenths, for the cases of find_parent:          *)
(*   (0,0,3,3) and (1,1,3,3) both contain (1,1,3,3), and their iou is 4/9; *)
(*   (1,1,3,3) and (0,0,3,2) hold the centre (1.5,1.5) of (0,0,3,3) and do *)
(*     not contain it, and their iou is 1/4;                               *)
(*   the centre (2,2) of (1,1,3,3) is on the edge of (0,0,3,2), and the    *)
(*     centre (1.5,1) of (0,0,3,2) is on the edge of (1,1,3,3);            *)
(*   (0,0,3,2) has iou 2/3 with (0,0,3,3).                                 *)
(* A second image holds only the largest box.                              *)
(***************************************************************************)
ParentBoxes == {<<0, 0, 3, 3>>, <<1, 1, 3, 3>>, <<0, 0, 3, 2>>}

OtherImageBoxes == {<<0, 0, 3, 3>>}

\* the pairs of child_parent_list, as a set
PairsDone == {child_parent_list[k] : k \in 1..Len(child_parent_list)}

Next ==
    \/ \E label \in Labels, box \in ParentBoxes :
            Construct(Row("i1", label, box))
    \/ \E label \in Labels, box \in OtherImageBoxes :
            Construct(Row("i2", label, box))
    \/ FindOverlappingObjects
    \/ FindDuplicates
    \/ \E child_label \in Labels, parent_label \in Labels :
            /\ <<child_label, parent_label>> \notin PairsDone
            /\ FindParent(child_label, parent_label)

Spec == Init /\ [][Next]_vars

(***************************************************************************)
(* Boxes for the cases of the overlap and duplicate passes:                *)
(*   (0,0,3,3) and (0,0,3,2) have iou 2/3, (0,0,3,2) and (0,0,3,1) have    *)
(*   iou exactly 1/2, (0,0,3,3) and (0,0,3,1) have iou 1/3;                *)
(*   (3,2,4,3) touches (0,0,3,3) along an edge and (0,0,3,2) at a corner,  *)
(*   and is apart from (0,0,3,1).                                          *)
(***************************************************************************)
OverlapBoxes == {<<0, 0, 3, 3>>, <<0, 0, 3, 2>>, <<0, 0, 3, 1>>, <<3, 2, 4, 3>>}

Images == {"i1", "i2"}

NextOverlap ==
    \/ \E imageID \in Images, label \in Labels, box \in OverlapBoxes :
            Construct(Row(imageID, label, box))
    \/ FindOverlappingObjects
    \/ FindDuplicates

SpecOverlap == Init /\ [][NextOverlap]_vars

(***************************************************************************)
(* Rows for the cases of construction.  A coordinate may be off the        *)
(* lattice by up to four millionths, which round(x, 5) removes.  The       *)
(* degenerate boxes have no width, a negative width, no height, or a width *)
(* of 0.000008 as given that is 0 after rounding.                          *)
(***************************************************************************)
\* a coordinate r millionths off n tenths
Off(n, r) == [n |-> n, r |-> r]

\* an annotation row with the bounds <<XMin, YMin, XMax, YMax>> as given
RowAt(imageID, label, bounds) ==
    [ImageID |-> imageID, LabelName |-> label,
     XMin |-> bounds[1], YMin |-> bounds[2],
     XMax |-> bounds[3], YMax |-> bounds[4]]

GoodBounds ==
    {<<Tenths(0), Tenths(0), Tenths(3), Tenths(3)>>,
     <<Off(1, 4), Off(1, -4), Off(3, -4), Off(3, 4)>>,
     <<Off(0, 3), Tenths(0), Tenths(3), Off(2, -3)>>}

DegenerateBounds ==
    {<<Tenths(1), Tenths(0), Tenths(1), Tenths(3)>>,
     <<Tenths(3), Tenths(0), Tenths(1), Tenths(3)>>,
     <<Tenths(0), Tenths(2), Tenths(3), Tenths(2)>>,
     <<Off(1, -4), Tenths(0), Off(1, 4), Tenths(3)>>}

ConstructRows ==
    {RowAt(imageID, label, bounds) :
        imageID \in Images, label \in Labels,
        bounds \in GoodBounds \cup DegenerateBounds}

\* a failed construction raises AssertionError out of the caller, which
\* makes no further call
NextConstruct ==
    \/ \E obj \in ConstructRows : Construct(obj)
    \/ FindOverlappingObjects
    \/ FindDuplicates

SpecConstruct == Init /\ [][NextConstruct]_vars

(***************************************************************************)
(* Two images for the cases that compare runs of get_hierarchy.  In the    *)
(* first, (1,1,3,3) is inside (0,0,3,3) and each holds the centre of the   *)
(* other, so that the pairs (Object, Group), (Group, Object),              *)
(* (Object, Object) and (Group, Group) can all assign parents; the same    *)
(* box twice in one list is a duplicate.  The second image holds the box   *)
(* (0,0,3,3), which would contain every object of the first.               *)
(***************************************************************************)
NestedBoxes == {<<0, 0, 3, 3>>, <<1, 1, 3, 3>>}

NextImages ==
    \/ \E label \in Labels, box \in NestedBoxes :
            Construct(Row("i1", label, box))
    \/ \E label \in Labels, box \in OtherImageBoxes :
            Construct(Row("i2", label, box))
    \/ FindOverlappingObjects
    \/ FindDuplicates
    \/ \E child_label \in Labels, parent_label \in Labels :
            /\ <<child_label, parent_label>> \notin PairsDone
            /\ FindParent(child_label, parent_label)

SpecImages == Init /\ [][NextImages]_vars

(***************************************************************************)
(* get_hierarchy as one call: the heap after it, and the error raised.     *)
(***************************************************************************)
\* the loop over child_parent_list; s is [all, err]
RECURSIVE ParentPairs(_, _, _)
ParentPairs(s, list, k) ==
    IF k > Len(list) \/ s.err # "none" THEN s
    ELSE ParentPairs(find_parent(s.all, list[k][1], list[k][2]), list, k + 1)

get_hierarchy(heap, list) ==
    LET s1 == find_overlapping_objects(heap)
        s2 == IF s1.err = "none" THEN find_duplicates(s1.all) ELSE s1
    IN  ParentPairs(s2, list, 1)

(***************************************************************************)
(* Boxes for duplicates that do not form groups: (0,0,3,2) and (0,0,3,3)   *)
(* have iou 2/3, (0,0,3,3) and (0,0,3,4) have iou 3/4, and (0,0,3,2) and   *)
(* (0,0,3,4) have iou exactly 1/2.                                         *)
(***************************************************************************)
ChainBoxes == {<<0, 0, 3, 2>>, <<0, 0, 3, 3>>, <<0, 0, 3, 4>>}

NextDuplicates ==
    \/ \E label \in Labels, box \in ChainBoxes :
            Construct(Row("i1", label, box))
    \/ FindOverlappingObjects
    \/ FindDuplicates

SpecDuplicates == Init /\ [][NextDuplicates]_vars

\* the first image alone, for the orders of a list of pairs
NextPairs ==
    \/ \E label \in Labels, box \in NestedBoxes :
            Construct(Row("i1", label, box))
    \/ FindOverlappingObjects
    \/ FindDuplicates
    \/ \E child_label \in Labels, parent_label \in Labels :
            /\ <<child_label, parent_label>> \notin PairsDone
            /\ FindParent(child_label, parent_label)

SpecPairs == Init /\ [][NextPairs]_vars

(***************************************************************************)
(* A caller that does not use get_hierarchy and calls the three passes     *)
(* itself, in any order, on the objects it has constructed:                *)
(* find_overlapping_objects and find_duplicates any number of times,       *)
(* find_parent for one pair.  pc is the last pass called.  An exception    *)
(* raised by a pass goes out of the caller, which makes no further call;   *)
(* what the pass wrote before raising stays on the objects.                *)
(***************************************************************************)
CallFindOverlappingObjects ==
    /\ err = "none"
    /\ LET s == find_overlapping_objects(all)
       IN  all' = s.all /\ err' = s.err
    /\ pc' = "overlap"
    /\ UNCHANGED <<buckets, child_parent_list>>

CallFindDuplicates ==
    /\ err = "none"
    /\ LET s == find_duplicates(all)
       IN  all' = s.all /\ err' = s.err
    /\ pc' = "duplicates"
    /\ UNCHANGED <<buckets, child_parent_list>>

CallFindParent(child_label, parent_label) ==
    /\ err = "none"
    /\ Len(child_parent_list) < MaxPairs
    /\ LET s == find_parent(all, child_label, parent_label)
       IN  all' = s.all /\ err' = s.err
    /\ pc' = "parent"
    /\ child_parent_list' = Append(child_parent_list,
                                   <<child_label, parent_label>>)
    /\ UNCHANGED buckets

NextCaller ==
    \/ \E label \in Labels, box \in NestedBoxes :
            Construct(Row("i1", label, box))
    \/ CallFindOverlappingObjects
    \/ CallFindDuplicates
    \/ \E child_label \in Labels, parent_label \in Labels :
            /\ child_parent_list = <<>>
            /\ CallFindParent(child_label, parent_label)

SpecCaller == Init /\ [][NextCaller]_vars

\* one image and one call of find_parent, for the candidates of a child
NextCandidates ==
    \/ \E label \in Labels, box \in ParentBoxes :
            Construct(Row("i1", label, box))
    \/ FindOverlappingObjects
    \/ FindDuplicates
    \/ \E child_label \in Labels, parent_label \in Labels :
            /\ child_parent_list = <<>>
            /\ FindParent(child_label, parent_label)

SpecCandidates == Init /\ [][NextCandidates]_vars

(***************************************************************************)
(* What the properties speak of.                                           *)
(***************************************************************************)
Ids == 1..Len(all)

\* the passes that have run
OverlapsFound == pc \in {"overlap", "duplicates", "parent"} /\ err = "none"

DuplicatesFound == pc \in {"duplicates", "parent"} /\ err = "none"

\* get_hierarchy has returned for the list child_parent_list
HierarchyDone == DuplicatesFound

SameImage(i, j) == all[i].imageID = all[j].imageID

SameBucket(i, j) == SameImage(i, j) /\ all[i].label = all[j].label

\* the box of an object, in tenths
BoxOf(o) == <<o.x0 \div 2, o.y0 \div 2, o.x1 \div 2, o.y1 \div 2>>

IsObject(o, imageID, label, index, box) ==
    /\ o.imageID = imageID
    /\ o.label = label
    /\ o.index = index
    /\ BoxOf(o) = box

\* geometry as the specification words it
OverlapWidth(a, b) ==
    (IF a.x1 < b.x1 THEN a.x1 ELSE b.x1) - (IF a.x0 > b.x0 THEN a.x0 ELSE b.x0)

OverlapHeight(a, b) ==
    (IF a.y1 < b.y1 THEN a.y1 ELSE b.y1) - (IF a.y0 > b.y0 THEN a.y0 ELSE b.y0)

Intersects(a, b) == OverlapWidth(a, b) > 0 /\ OverlapHeight(a, b) > 0

IntersectionOf(a, b) ==
    IF Intersects(a, b) THEN OverlapWidth(a, b) * OverlapHeight(a, b) ELSE 0

\* iou and the threshold 0.5 in units of 10^-5; the quotient rounded half up,
\* which differs from rounding to even only on a tie
IouOf(a, b) ==
    LET num == IntersectionOf(a, b)
        den == a.area + b.area - num
    IN  (2 * num * 100000 + den) \div (2 * den)

Half == 50000

FullyContains(p, c) ==
    p.x0 <= c.x0 /\ c.x1 <= p.x1 /\ p.y0 <= c.y0 /\ c.y1 <= p.y1

CenterStrictlyInside(c, p) ==
    p.x0 < c.xc /\ c.xc < p.x1 /\ p.y0 < c.yc /\ c.yc < p.y1

IsDuplicate(i) == all[i].duplicate = Some(TRUE)

\* parent[label] of an object is the index n
HasParent(i, label, n) ==
    /\ all[i].parent # None
    /\ label \in DOMAIN all[i].parent[1]
    /\ all[i].parent[1][label] = n

NoParentEntry(i, label) ==
    all[i].parent = None \/ label \notin DOMAIN all[i].parent[1]

\* how often the index n occurs in children[label] of an object
TimesChild(i, label, n) ==
    IF all[i].children = None \/ label \notin DOMAIN all[i].children[1]
    THEN 0
    ELSE Cardinality({k \in 1..Len(all[i].children[1][label]) :
                        all[i].children[1][label][k] = n})

\* the candidate parents of child c under parent_label, and those of them
\* left after the full-containment filter
CandidateSet(c, parent_label) ==
    {p \in Ids \ {c} : /\ SameImage(p, c)
                       /\ all[p].label = parent_label
                       /\ ~IsDuplicate(p)
                       /\ CenterStrictlyInside(all[c], all[p])}

FullSet(c, parent_label) ==
    {p \in CandidateSet(c, parent_label) : FullyContains(all[p], all[c])}

SurvivingSet(c, parent_label) ==
    IF FullSet(c, parent_label) # {} THEN FullSet(c, parent_label)
    ELSE CandidateSet(c, parent_label)

\* the children of a pair that find_parent has been run for
ChildOf(c, pair) == pair \in PairsDone /\ all[c].label = pair[1]

(***************************************************************************)
(* C1: the example of __main__.  With Object#0 = (0.2,0.3,0.4,0.5),        *)
(* Object#1 = (0.1,0.4,0.3,0.8) and Group#0 = (0.1,0.1,0.5,0.5) built in   *)
(* that order in one image, get_hierarchy with [(Object, Group)] leaves    *)
(* Group#0.children = {Object: [0]}, Object#0.parent = {Group: 0},         *)
(* Object#1.parent = {}, and Object#0.children, Object#1.children and      *)
(* Group#0.parent None.                                                    *)
(***************************************************************************)
C1_Case ==
    /\ HierarchyDone
    /\ child_parent_list = << <<"Object", "Group">> >>
    /\ Len(all) = 3
    /\ IsObject(all[1], "i1", "Object", 0, <<2, 3, 4, 5>>)
    /\ IsObject(all[2], "i1", "Object", 1, <<1, 4, 3, 8>>)
    /\ IsObject(all[3], "i1", "Group", 0, <<1, 1, 5, 5>>)

C1_Example ==
    C1_Case =>
        /\ all[3].children = Some([Object |-> <<0>>])
        /\ all[1].parent = Some([Group |-> 0])
        /\ all[2].parent = Some(<<>>)
        /\ all[1].children = None
        /\ all[2].children = None
        /\ all[3].parent = None

C1_Witness == C1_Case /\ HasParent(1, "Group", 0)

(***************************************************************************)
(* C2: after find_duplicates an object's duplicate flag is True exactly    *)
(* when an object of the same image and label has a greater index and an   *)
(* iou with it above 0.5, and is False otherwise.                          *)
(***************************************************************************)
C2_DuplicateIff ==
    DuplicatesFound =>
        \A i \in Ids :
            all[i].duplicate =
                Some(\E j \in Ids : /\ SameBucket(i, j)
                                    /\ all[j].index > all[i].index
                                    /\ IouOf(all[i], all[j]) > Half)

\* an iou of exactly 0.5 with a later object, and a lower-index partner of
\* iou above 0.5, both leaving the flag False
C2_Witness ==
    /\ DuplicatesFound
    /\ \E i, j \in Ids : /\ SameBucket(i, j)
                         /\ all[j].index > all[i].index
                         /\ IouOf(all[i], all[j]) = Half
                         /\ all[i].duplicate = Some(FALSE)
    /\ \E i, j \in Ids : /\ SameBucket(i, j)
                         /\ all[j].index < all[i].index
                         /\ IouOf(all[i], all[j]) > Half
                         /\ all[i].duplicate = Some(FALSE)
                         /\ all[j].duplicate = Some(TRUE)

(***************************************************************************)
(* C3: when a bucket holds exactly two objects and their iou is above 0.5, *)
(* the first constructed is flagged duplicate and the second is not,       *)
(* whichever of the two boxes was constructed first.                       *)
(***************************************************************************)
PairBucket(i, j) ==
    /\ SameBucket(i, j)
    /\ all[i].index = 0
    /\ all[j].index = 1
    /\ \A k \in Ids : SameBucket(i, k) => k \in {i, j}
    /\ IouOf(all[i], all[j]) > Half

C3_FirstOfTwoFlagged ==
    DuplicatesFound =>
        \A i, j \in Ids :
            PairBucket(i, j) => /\ all[i].duplicate = Some(TRUE)
                                /\ all[j].duplicate = Some(FALSE)

\* two different boxes in one bucket, the larger one constructed second
C3_Witness ==
    /\ DuplicatesFound
    /\ \E i, j \in Ids : /\ PairBucket(i, j)
                         /\ BoxOf(all[i]) = <<0, 0, 3, 2>>
                         /\ BoxOf(all[j]) = <<0, 0, 3, 3>>
                         /\ IsDuplicate(i)
                         /\ ~IsDuplicate(j)

(***************************************************************************)
(* C4: in find_parent(CL, PL) a child that is not a duplicate is given a   *)
(* parent only when exactly one candidate is left after the                *)
(* full-containment filter; with two or more left it has no parent[PL]     *)
(* entry, its index is in no children[CL] list, and no error is raised.    *)
(***************************************************************************)
C4_OnlySingleCandidate ==
    HierarchyDone =>
        \A pair \in PairsDone : \A c \in Ids :
            (ChildOf(c, pair) /\ ~IsDuplicate(c)) =>
                /\ ~NoParentEntry(c, pair[2]) =>
                        Cardinality(SurvivingSet(c, pair[2])) = 1
                /\ Cardinality(SurvivingSet(c, pair[2])) >= 2 =>
                        /\ NoParentEntry(c, pair[2])
                        /\ \A p \in Ids :
                              (SameImage(p, c) /\ all[p].label = pair[2]) =>
                                  TimesChild(p, pair[1], all[c].index) = 0
                        /\ err = "none"

\* a child with two candidates that both contain it fully
C4_Witness ==
    /\ HierarchyDone
    /\ \E pair \in PairsDone : \E c \in Ids :
          /\ ChildOf(c, pair)
          /\ ~IsDuplicate(c)
          /\ Cardinality(FullSet(c, pair[2])) >= 2
          /\ all[c].parent = Some(<<>>)

(***************************************************************************)
(* C5: in find_parent(CL, PL), when a candidate contains the child fully,  *)
(* the candidates that do not are dropped: a child with exactly one fully  *)
(* containing candidate is assigned to it, however many candidates hold    *)
(* only its centre.                                                        *)
(***************************************************************************)
C5_FullContainmentWins ==
    HierarchyDone =>
        \A pair \in PairsDone : \A c \in Ids :
            (ChildOf(c, pair) /\ ~IsDuplicate(c)) =>
                \A p \in FullSet(c, pair[2]) :
                    FullSet(c, pair[2]) = {p} =>
                        /\ HasParent(c, pair[2], all[p].index)
                        /\ TimesChild(p, pair[1], all[c].index) >= 1

\* one candidate contains the child, another holds only its centre
C5_Witness ==
    /\ HierarchyDone
    /\ \E pair \in PairsDone : \E c \in Ids : \E p \in Ids :
          /\ ChildOf(c, pair)
          /\ ~IsDuplicate(c)
          /\ FullSet(c, pair[2]) = {p}
          /\ CandidateSet(c, pair[2]) \ {p} # {}
          /\ HasParent(c, pair[2], all[p].index)

(***************************************************************************)
(* C6: a parent P assigned to a child c by find_parent(CL, PL) is a PL     *)
(* object of c's image that is not a duplicate, intersects c and holds     *)
(* c's centre strictly inside its bounds, and c is not a duplicate.        *)
(***************************************************************************)
C6_AssignedParentQualifies ==
    HierarchyDone =>
        \A c \in Ids : \A label \in Labels :
            ~NoParentEntry(c, label) =>
                /\ ~IsDuplicate(c)
                /\ \E p \in Ids :
                      /\ SameImage(p, c)
                      /\ all[p].label = label
                      /\ all[p].index = all[c].parent[1][label]
                      /\ ~IsDuplicate(p)
                      /\ Intersects(all[c], all[p])
                      /\ CenterStrictlyInside(all[c], all[p])

\* the only object holding the child's centre is a duplicate, another object
\* of the parent label has the centre on its boundary, and the child has no
\* parent
C6_Witness ==
    /\ HierarchyDone
    /\ \E pair \in PairsDone : \E c \in Ids : \E p, q \in Ids :
          /\ ChildOf(c, pair)
          /\ ~IsDuplicate(c)
          /\ SameImage(p, c) /\ SameImage(q, c)
          /\ all[p].label = pair[2] /\ all[q].label = pair[2]
          /\ IsDuplicate(p)
          /\ CenterStrictlyInside(all[c], all[p])
          /\ ~IsDuplicate(q)
          /\ Intersects(all[c], all[q])
          /\ ~CenterStrictlyInside(all[c], all[q])
          /\ CandidateSet(c, pair[2]) = {}
          /\ all[c].parent = Some(<<>>)

(***************************************************************************)
(* C7: after get_hierarchy an object flagged duplicate has no parent entry *)
(* (its parent is None or an empty dict) and no index in any of its        *)
(* children lists.                                                         *)
(***************************************************************************)
C7_DuplicatesOutside ==
    HierarchyDone =>
        \A d \in Ids :
            IsDuplicate(d) =>
                /\ all[d].parent \in {None, Some(<<>>)}
                /\ \/ all[d].children = None
                   \/ \A label \in DOMAIN all[d].children[1] :
                         all[d].children[1][label] = <<>>

\* a duplicate that holds the centre of a child, and a duplicate inside an
\* object of the parent label, after find_parent ran for their labels
C7_Witness ==
    /\ HierarchyDone
    /\ \E pair \in PairsDone : \E d, c \in Ids :
          /\ IsDuplicate(d)
          /\ all[d].label = pair[2]
          /\ ChildOf(c, pair) /\ ~IsDuplicate(c)
          /\ SameImage(c, d)
          /\ CenterStrictlyInside(all[c], all[d])
          /\ all[d].children = Some(<<>>)
    /\ \E pair \in PairsDone : \E d, p \in Ids :
          /\ IsDuplicate(d)
          /\ ChildOf(d, pair)
          /\ SameImage(p, d)
          /\ all[p].label = pair[2] /\ ~IsDuplicate(p)
          /\ FullyContains(all[p], all[d])
          /\ CenterStrictlyInside(all[d], all[p])
          /\ all[d].parent = Some(<<>>)

(***************************************************************************)
(* C8: after get_hierarchy, for every pair (CL, PL) of the list and every  *)
(* CL object c and PL object p of one image, c.parent[PL] is p's index     *)
(* exactly when c's index is in p.children[CL].                            *)
(***************************************************************************)
C8_ParentIffChild ==
    HierarchyDone =>
        \A pair \in PairsDone : \A c, p \in Ids :
            (/\ SameImage(c, p)
             /\ all[c].label = pair[1]
             /\ all[p].label = pair[2]) =>
                (HasParent(c, pair[2], all[p].index)
                    <=> TimesChild(p, pair[1], all[c].index) >= 1)

\* a child with a parent beside an object of the parent label that is not
\* its parent
C8_Witness ==
    /\ HierarchyDone
    /\ \E pair \in PairsDone : \E c, p, q \in Ids :
          /\ SameImage(c, p) /\ SameImage(c, q)
          /\ all[c].label = pair[1]
          /\ all[p].label = pair[2] /\ all[q].label = pair[2]
          /\ HasParent(c, pair[2], all[p].index)
          /\ TimesChild(p, pair[1], all[c].index) = 1
          /\ p # q
          /\ TimesChild(q, pair[1], all[c].index) = 0

(***************************************************************************)
(* C9: after get_hierarchy with a list in which no pair is repeated, the   *)
(* index of a CL object occurs at most once over the children[CL] lists of *)
(* all PL objects of its image.                                            *)
(***************************************************************************)
NoPairRepeated ==
    Cardinality(PairsDone) = Len(child_parent_list)

RECURSIVE SumOver(_, _, _, _)
SumOver(ids, k, label, n) ==
    IF k > Len(ids) THEN 0
    ELSE TimesChild(ids[k], label, n) + SumOver(ids, k + 1, label, n)

\* how often the index of c occurs in the children lists of the objects of
\* parent_label in c's image
TimesAssigned(c, parent_label) ==
    SumOver(ObjectList(all, all[c].imageID, parent_label), 1,
            all[c].label, all[c].index)

C9_AtMostOneParent ==
    (HierarchyDone /\ NoPairRepeated) =>
        \A pair \in PairsDone : \A c \in Ids :
            ChildOf(c, pair) => TimesAssigned(c, pair[2]) <= 1

\* two children of one parent, each listed once, with a second object of
\* the parent label in the image
C9_Witness ==
    /\ HierarchyDone
    /\ NoPairRepeated
    /\ \E pair \in PairsDone : \E c, d, p \in Ids :
          /\ ChildOf(c, pair) /\ ChildOf(d, pair)
          /\ c # d
          /\ SameImage(c, p) /\ SameImage(d, p)
          /\ all[p].label = pair[2]
          /\ all[p].children # None
          /\ pair[1] \in DOMAIN all[p].children[1]
          /\ Len(all[p].children[1][pair[1]]) = 2
          /\ TimesAssigned(c, pair[2]) = 1
          /\ TimesAssigned(d, pair[2]) = 1

(***************************************************************************)
(* C10: after find_overlapping_objects, two different objects of one image *)
(* whose overlap width and height are both positive each hold exactly one  *)
(* fact about the other, under the other's label and with its index; any   *)
(* other two objects hold no fact about each other.                        *)
(***************************************************************************)
\* the places <<label, k>> of the facts of object i that are about object j
FactsAbout(i, j) ==
    {lk \in UNION {{<<label, k>> : k \in 1..Len(all[i].overlap[1][label])} :
                       label \in DOMAIN all[i].overlap[1]} :
        LET fact == all[i].overlap[1][lk[1]][lk[2]]
        IN  \/ fact.obj = j
            \/ /\ SameImage(i, j)
               /\ lk[1] = all[j].label
               /\ fact.index = all[j].index}

OneFactAbout(i, j) ==
    /\ Cardinality(FactsAbout(i, j)) = 1
    /\ \A lk \in FactsAbout(i, j) :
          /\ lk[1] = all[j].label
          /\ all[i].overlap[1][lk[1]][lk[2]].index = all[j].index
          /\ all[i].overlap[1][lk[1]][lk[2]].obj = j

C10_FactsIffIntersect ==
    OverlapsFound =>
        \A i, j \in Ids :
            /\ all[i].overlap # None
            /\ i # j =>
                  IF SameImage(i, j) /\ Intersects(all[i], all[j])
                  THEN OneFactAbout(i, j) /\ OneFactAbout(j, i)
                  ELSE FactsAbout(i, j) = {} /\ FactsAbout(j, i) = {}

\* in one image: an intersecting pair, a pair touching along an edge and a
\* pair touching at a corner
C10_Witness ==
    /\ OverlapsFound
    /\ \E i, j, k \in Ids :
          /\ SameImage(i, j) /\ SameImage(i, k)
          /\ BoxOf(all[i]) = <<0, 0, 3, 3>>
          /\ BoxOf(all[j]) = <<0, 0, 3, 2>>
          /\ BoxOf(all[k]) = <<3, 2, 4, 3>>
          /\ OneFactAbout(i, j)
          /\ FactsAbout(i, k) = {}
          /\ FactsAbout(j, k) = {}
(***************************************************************************)
(* C11: after find_overlapping_objects, for two intersecting objects A and *)
(* B of one image, the fact A holds about B and the fact B holds about A   *)
(* have the same intersection, iou and iom, and mirrored flags:            *)
(* self_inside_other of one is other_inside_self of the other, and         *)
(* center_of_self of one is center_of_other of the other.  Also            *)
(* intersection_area(A, B) = intersection_area(B, A) for any two objects.  *)
(***************************************************************************)
\* the facts object i holds about object j
FactsOf(i, j) ==
    {all[i].overlap[1][lk[1]][lk[2]] : lk \in FactsAbout(i, j)}

Mirrored(a, b) ==
    /\ a.intersection = b.intersection
    /\ a.iou = b.iou
    /\ a.iom = b.iom
    /\ a.self_inside_other = b.other_inside_self
    /\ a.center_of_self = b.center_of_other
    /\ b.self_inside_other = a.other_inside_self
    /\ b.center_of_self = a.center_of_other

C11_MirroredFacts ==
    /\ \A i, j \in Ids :
          intersection_area(all[i], all[j]) = intersection_area(all[j], all[i])
    /\ OverlapsFound =>
          \A i, j \in Ids :
              (i # j /\ SameImage(i, j) /\ Intersects(all[i], all[j])) =>
                  /\ FactsOf(i, j) # {}
                  /\ FactsOf(j, i) # {}
                  /\ \A a \in FactsOf(i, j) : \A b \in FactsOf(j, i) :
                        Mirrored(a, b)

\* one object inside the other and holding its centre, but not the reverse,
\* and the two of different areas
C11_Witness ==
    /\ OverlapsFound
    /\ \E i, j \in Ids : \E a \in FactsOf(i, j) : \E b \in FactsOf(j, i) :
          /\ BoxOf(all[i]) = <<0, 0, 3, 3>>
          /\ BoxOf(all[j]) = <<0, 0, 3, 1>>
          /\ ~a.self_inside_other /\ a.other_inside_self
          /\ ~a.center_of_self /\ a.center_of_other
          /\ b.self_inside_other /\ ~b.other_inside_self
          /\ a.iou = 33333 /\ b.iou = 33333
          /\ a.iom = 100000 /\ b.iom = 100000
(***************************************************************************)
(* C12: every recorded overlap fact has iou and iom between 0 and 1, where *)
(* iou is intersection / (area A + area B - intersection) and iom is       *)
(* intersection / min(area A, area B), each rounded to five decimals; both *)
(* divisors are positive, and every constructed object has area > 0.       *)
(***************************************************************************)
\* iom in units of 10^-5, the quotient rounded half up
IomOf(a, b) ==
    LET num == IntersectionOf(a, b)
        den == IF a.area < b.area THEN a.area ELSE b.area
    IN  (2 * num * 100000 + den) \div (2 * den)

C12_RatiosInRange ==
    /\ \A i \in Ids : all[i].area > 0
    /\ OverlapsFound =>
          \A i, j \in Ids : \A fact \in FactsOf(i, j) :
              /\ all[i].area + all[j].area - IntersectionOf(all[i], all[j]) > 0
              /\ fact.iou = IouOf(all[i], all[j])
              /\ fact.iom = IomOf(all[i], all[j])
              /\ 0 <= fact.iou /\ fact.iou <= 100000
              /\ 0 <= fact.iom /\ fact.iom <= 100000

\* facts with iou 4/9 and iom 1, and with iou 1/4 and iom 1/2, between
\* objects whose bounds were given off the lattice
C12_Witness ==
    /\ OverlapsFound
    /\ \E i, j \in Ids : \E fact \in FactsOf(i, j) :
          fact.iou = 44444 /\ fact.iom = 100000
    /\ \E i, j \in Ids : \E fact \in FactsOf(i, j) :
          fact.iou = 25000 /\ fact.iom = 50000
(***************************************************************************)
(* C13: constructing an object whose width x1 - x0 or height y1 - y0,      *)
(* taken after the coordinates are rounded, is not positive raises an      *)
(* error, and a construction that raises leaves the collection as it was:  *)
(* no object is appended, no list is created in all_obj, and every object  *)
(* keeps its index.                                                        *)
(***************************************************************************)
\* a bound rounded to five decimals, in tenths
Rounded(c) == c.n

Degenerate(obj) ==
    \/ Rounded(obj.XMax) - Rounded(obj.XMin) <= 0
    \/ Rounded(obj.YMax) - Rounded(obj.YMin) <= 0

C13_FailedConstruction ==
    [][/\ \A obj \in ConstructRows :
             (Construct(obj) /\ Degenerate(obj)) => err' = "AssertionError"
       /\ err' = "AssertionError" =>
             /\ all' = all
             /\ buckets' = buckets
             /\ \A i \in Ids : all'[i].index = all[i].index]_vars

\* a construction has failed after two objects were put in two lists
C13_Witness ==
    /\ err = "AssertionError"
    /\ pc = "construct"
    /\ Len(all) = 2
    /\ Len(buckets) = 2
    /\ \A k \in 1..Len(buckets) :
          \E i \in Ids : buckets[k] = <<all[i].imageID, all[i].label>>
(***************************************************************************)
(* C14: in every list all_obj[imageID][label] the object at position i has *)
(* index i: an object's index is the number of objects of its image and    *)
(* label constructed before it, the indices of a list are 0 .. n-1, and no *)
(* step changes the index of an object that exists.                        *)
(***************************************************************************)
\* the objects of the list with the given key
InBucket(key) ==
    {i \in Ids : <<all[i].imageID, all[i].label>> = key}

IndexIsPosition ==
    /\ \A i \in Ids :
          /\ all[i].index = Cardinality({j \in 1..(i - 1) : SameBucket(i, j)})
          /\ ObjectList(all, all[i].imageID, all[i].label)[all[i].index + 1] = i
    /\ \A k \in 1..Len(buckets) :
          {all[i].index : i \in InBucket(buckets[k])}
              = 0..(Cardinality(InBucket(buckets[k])) - 1)

C14_IndexIsPosition ==
    /\ []IndexIsPosition
    /\ [][\A i \in Ids : all'[i].index = all[i].index]_vars

\* two lists filled in turn, after the passes have run
C14_Witness ==
    /\ DuplicatesFound
    /\ Len(all) = 3
    /\ SameBucket(1, 3) /\ ~SameBucket(1, 2)
    /\ all[1].index = 0 /\ all[2].index = 0 /\ all[3].index = 1
(***************************************************************************)
(* C15: get_hierarchy runs find_overlapping_objects once, then             *)
(* find_duplicates once, then find_parent once for each pair of the list   *)
(* in list order.  No duplicate flag is written before every object has    *)
(* its overlap facts, and no parent or children member is written before   *)
(* every object has its duplicate flag.                                    *)
(***************************************************************************)
OverlapsComplete ==
    \A i \in Ids :
        /\ all[i].overlap # None
        /\ \A j \in Ids \ {i} :
              (SameImage(i, j) /\ Intersects(all[i], all[j])) =>
                  FactsAbout(i, j) # {}

PassOrder ==
    /\ (\E i \in Ids : all[i].duplicate # None) => OverlapsComplete
    /\ (\E i \in Ids : all[i].parent # None \/ all[i].children # None) =>
          \A j \in Ids : all[j].duplicate # None

\* each member is written by the step of its pass, and the passes follow
\* one another
PassStep ==
    /\ pc' # pc =>
          <<pc, pc'>> \in {<<"construct", "overlap">>,
                           <<"overlap", "duplicates">>,
                           <<"duplicates", "parent">>}
    /\ \A i \in Ids :
          /\ all'[i].overlap # all[i].overlap =>
                pc = "construct" /\ pc' = "overlap"
          /\ all'[i].duplicate # all[i].duplicate =>
                pc = "overlap" /\ pc' = "duplicates"
          /\ (all'[i].parent # all[i].parent
                \/ all'[i].children # all[i].children) =>
                /\ pc \in {"duplicates", "parent"}
                /\ pc' = "parent"
                /\ \E pair \in Labels \X Labels :
                      child_parent_list' = Append(child_parent_list, pair)

C15_PassOrder == []PassOrder /\ [][PassStep]_vars

\* find_parent has run for two pairs and has assigned a parent
C15_Witness ==
    /\ HierarchyDone
    /\ Len(child_parent_list) = 2
    /\ OverlapsComplete
    /\ \A j \in Ids : all[j].duplicate # None
    /\ \E i \in Ids : IsDuplicate(i)
    /\ \E i \in Ids : \E label \in Labels : ~NoParentEntry(i, label)
(***************************************************************************)
(* C16: for a list of distinct (child label, parent label) pairs, the      *)
(* parent and the children of every object after get_hierarchy are the     *)
(* same for every permutation of the list.                                 *)
(***************************************************************************)
\* the objects as their constructors left them
AsConstructed ==
    [i \in Ids |-> [all[i] EXCEPT !.overlap = None, !.duplicate = None,
                                  !.parent = None, !.children = None]]

ListOrders(n) ==
    {f \in [1..n -> 1..n] : \A a, b \in 1..n : a # b => f[a] # f[b]}

Permuted(list, f) == [k \in 1..Len(list) |-> list[f[k]]]

C16_PairOrderFree ==
    (HierarchyDone /\ NoPairRepeated) =>
        \A f \in ListOrders(Len(child_parent_list)) :
            LET run == get_hierarchy(AsConstructed,
                                     Permuted(child_parent_list, f))
            IN  /\ run.err = "none"
                /\ \A i \in Ids :
                      /\ run.all[i].parent = all[i].parent
                      /\ run.all[i].children = all[i].children

\* two pairs with the same parent label have each given a child to the same
\* object, which has a parent of its own
C16_Witness ==
    /\ HierarchyDone
    /\ Len(child_parent_list) = 2
    /\ child_parent_list[1][2] = child_parent_list[2][2]
    /\ \E p \in Ids :
          /\ all[p].children # None
          /\ DOMAIN all[p].children[1] = Labels
          /\ \A label \in Labels : all[p].children[1][label] # <<>>
          /\ all[p].parent # None
          /\ all[p].parent[1] # <<>>
(***************************************************************************)
(* C17: the overlap, duplicate, parent and children members of every       *)
(* object of an image after get_hierarchy are what get_hierarchy gives     *)
(* them when the collection holds the objects of that image alone, and no  *)
(* overlap fact is about an object of another image.                       *)
(***************************************************************************)
\* the positions of the objects of an image, in construction order
RECURSIVE PositionsFrom(_, _)
PositionsFrom(imageID, i) ==
    IF i > Len(all) THEN <<>>
    ELSE (IF all[i].imageID = imageID THEN <<i>> ELSE <<>>)
         \o PositionsFrom(imageID, i + 1)

\* the collection with the objects at the positions pos and no others
Alone(pos) == [k \in 1..Len(pos) |-> AsConstructed[pos[k]]]

\* an overlap member of the collection Alone(pos), its facts' references
\* to objects taken back to the positions of the whole collection
Relocated(overlap, pos) ==
    IF overlap = None THEN None
    ELSE Some([label \in DOMAIN overlap[1] |->
                 [k \in 1..Len(overlap[1][label]) |->
                     [overlap[1][label][k] EXCEPT !.obj = pos[@]]]])

C17_ImagesIndependent ==
    HierarchyDone =>
        /\ \A imageID \in Images :
              LET pos == PositionsFrom(imageID, 1)
                  run == get_hierarchy(Alone(pos), child_parent_list)
              IN  /\ run.err = "none"
                  /\ \A k \in 1..Len(pos) :
                        /\ Relocated(run.all[k].overlap, pos)
                              = all[pos[k]].overlap
                        /\ run.all[k].duplicate = all[pos[k]].duplicate
                        /\ run.all[k].parent = all[pos[k]].parent
                        /\ run.all[k].children = all[pos[k]].children
        /\ \A i, j \in Ids : FactsAbout(i, j) # {} => SameImage(i, j)

\* in the first image an object has got a parent; an object of the second
\* image, constructed between the two, has the parent's label, contains the
\* child and has no fact about it
C17_Witness ==
    /\ HierarchyDone
    /\ Len(all) = 3
    /\ all[1].imageID = "i1" /\ all[2].imageID = "i2" /\ all[3].imageID = "i1"
    /\ all[2].label = all[1].label
    /\ FullyContains(all[2], all[3])
    /\ HasParent(3, all[1].label, all[1].index)
    /\ all[2].overlap = Some(<<>>)
    /\ all[2].children = None
OfLabel(c, parent_label) ==
    {p \in Ids \ {c} : SameImage(p, c) /\ all[p].label = parent_label}

\* C18 as stated: S is taken among all objects of PL, duplicates too, as
\* those that contain c fully or, when none does, those that hold its
\* centre; c has a parent when exactly one object of S is not a duplicate
StatedSet(c, parent_label) ==
    IF \E p \in OfLabel(c, parent_label) : FullyContains(all[p], all[c])
    THEN {p \in OfLabel(c, parent_label) : FullyContains(all[p], all[c])}
    ELSE {p \in OfLabel(c, parent_label) :
             CenterStrictlyInside(all[c], all[p])}

Redundant(i, j) ==
    i # j /\ SameBucket(i, j) /\ IouOf(all[i], all[j]) > Half

C19_KeptAreApart ==
    DuplicatesFound =>
        \A i, j \in Ids :
            (all[i].duplicate = Some(FALSE) /\ all[j].duplicate = Some(FALSE))
                => ~Redundant(i, j)

\* the first object's first fact is not above the threshold and its second
\* one is: the first two objects are flagged because of the third
C19_Witness ==
    /\ DuplicatesFound
    /\ Len(all) = 3
    /\ SameBucket(1, 2) /\ SameBucket(1, 3)
    /\ ~Redundant(1, 2) /\ Redundant(1, 3) /\ Redundant(2, 3)
    /\ IsDuplicate(1) /\ IsDuplicate(2)
    /\ all[3].duplicate = Some(FALSE)
(***************************************************************************)
(* C20: after find_duplicates, every object flagged duplicate has an       *)
(* object of greater index among the objects of its image and label whose  *)
(* iou with it is above 0.5; and when these objects form a group with it   *)
(* (every two of the group have an iou above 0.5, and none of the group    *)
(* has one with an object outside it), exactly one of them is not a        *)
(* duplicate.                                                              *)
(***************************************************************************)
Partners(i) == {j \in Ids : Redundant(i, j)}

KeptPartners(i) == {j \in Partners(i) : ~IsDuplicate(j)}

FormGroup(i) ==
    \A j \in Partners(i) : Partners(j) \cup {j} = Partners(i) \cup {i}

OverlapsPopulated == all # <<>> /\ \A i \in Ids : all[i].overlap # None

OverlapsUnset == all # <<>> /\ \A i \in Ids : all[i].overlap = None

DuplicatesUnset == \A i \in Ids : all[i].duplicate = None

\* some image holds an object of each of the two labels
SomeImageHolds(child_label, parent_label) ==
    \E i, j \in Ids : /\ SameImage(i, j)
                      /\ all[i].label = child_label
                      /\ all[j].label = parent_label

\* no object has an entry in its parent dict or in its children dict
NothingAssigned ==
    \A i \in Ids :
        /\ all[i].parent = None \/ DOMAIN all[i].parent[1] = {}
        /\ all[i].children = None \/ DOMAIN all[i].children[1] = {}

(***************************************************************************)
(* C21: find_parent called on a collection whose overlap facts are         *)
(* populated and whose duplicate flags are unset ends in an error and      *)
(* assigns no parent and no child.  The call is taken for a pair of labels *)
(* that some image holds an object of each of, since find_parent skips     *)
(* every other image.                                                      *)
(***************************************************************************)
C21_AsStated ==
    [][\A child_label, parent_label \in Labels :
          ( /\ CallFindParent(child_label, parent_label)
            /\ OverlapsPopulated
            /\ DuplicatesUnset
            /\ SomeImageHolds(child_label, parent_label) ) =>
              (err' # "none" /\ NothingAssigned')]_vars

(***************************************************************************)
(* C22: find_parent(CL, PL) called before find_overlapping_objects has     *)
(* run, on a collection where some image holds at least one object of      *)
(* label CL and at least one of label PL, ends in an error and does not    *)
(* return normally.                                                        *)
(***************************************************************************)
C22_FailsBeforeOverlap ==
    [][\A child_label, parent_label \in Labels :
          ( /\ CallFindParent(child_label, parent_label)
            /\ OverlapsUnset
            /\ SomeImageHolds(child_label, parent_label) ) =>
              err' # "none"]_vars

\* find_parent was the first pass called and has raised AttributeError,
\* after giving a child its empty parent dict
C22_Witness ==
    /\ pc = "parent"
    /\ err = "AttributeError"
    /\ OverlapsUnset
    /\ Len(child_parent_list) = 1
    /\ SomeImageHolds(child_parent_list[1][1], child_parent_list[1][2])
    /\ \E i \in Ids : all[i].parent = Some(<<>>)

(***************************************************************************)
(* C23: find_overlapping_objects run a second time, on objects that hold   *)
(* the facts of the first run, puts the facts of the second run in place   *)
(* of those of the first: every object then holds the same facts as before *)
(* the second run, one fact about each object it intersects.               *)
(***************************************************************************)
C23_RerunReplacesFacts ==
    [][(CallFindOverlappingObjects /\ OverlapsPopulated) =>
          /\ err' = "none"
          /\ \A i \in Ids :
                /\ all'[i].overlap = all[i].overlap
                /\ \A j \in Ids \ {i} :
                      (SameImage(i, j) /\ Intersects(all[i], all[j])) =>
                          Cardinality(FactsAbout(i, j))' = 1]_vars

\* C23 as stated: after the second run every object holds two facts about
\* each object it intersects
C23_AsStated ==
    [][(CallFindOverlappingObjects /\ OverlapsPopulated) =>
          \A i \in Ids : \A j \in Ids \ {i} :
              (SameImage(i, j) /\ Intersects(all[i], all[j])) =>
                  Cardinality(FactsAbout(i, j))' = 2]_vars

\* find_overlapping_objects has run before and after find_duplicates, and
\* an object holds one fact about another
C23_Witness ==
    /\ pc = "overlap"
    /\ err = "none"
    /\ \E i \in Ids : all[i].duplicate # None
    /\ \E i, j \in Ids : i # j /\ OneFactAbout(i, j)

(***************************************************************************)
(* C24: find_parent called a second time for the same pair (CL, PL), with  *)
(* no state reset in between, leaves parent[PL] of every child it assigns  *)
(* as it was, and appends the child's index once more to children[CL] of   *)
(* its parent: after two calls for the pair the list holds the index       *)
(* twice.                                                                  *)
(***************************************************************************)
\* how often find_parent has been called for a pair
Occurrences(pair) ==
    Cardinality({k \in 1..Len(child_parent_list) : child_parent_list[k] = pair})

\* object p is the parent under its label of the object c
IsParentOf(p, c) ==
    p # c /\ SameImage(p, c) /\ HasParent(c, all[p].label, all[p].index)

RepeatedCall(child_label, parent_label) ==
    /\ <<child_label, parent_label>> \in PairsDone
    /\ FindParent(child_label, parent_label)

C24_RepeatedPair ==
    /\ [](HierarchyDone =>
            \A c, p \in Ids :
                IsParentOf(p, c) =>
                    TimesChild(p, all[c].label, all[c].index)
                        = Occurrences(<<all[c].label, all[p].label>>))
    /\ [][\A child_label, parent_label \in Labels :
            RepeatedCall(child_label, parent_label) =>
                /\ err' = "none"
                /\ \A i \in Ids : all'[i].parent = all[i].parent
                /\ \A c, p \in Ids :
                      (IsParentOf(p, c) /\ all[c].label = child_label
                                        /\ all[p].label = parent_label) =>
                          TimesChild(p, child_label, all[c].index)'
                              = TimesChild(p, child_label, all[c].index) + 1]_vars

\* find_parent has run twice for one pair, and a parent holds its child's
\* index twice
C24_Witness ==
    /\ HierarchyDone
    /\ Len(child_parent_list) = 2
    /\ child_parent_list[1] = child_parent_list[2]
    /\ \E c, p \in Ids :
          /\ IsParentOf(p, c)
          /\ <<all[c].label, all[p].label>> = child_parent_list[1]
          /\ TimesChild(p, all[c].label, all[c].index) = 2

(***************************************************************************)
(* C25: find_parent(CL, PL) gives a parent dict only to objects of label   *)
(* CL and a children dict only to objects of label PL, and only in images  *)
(* that hold at least one object of each of the two labels; the parent and *)
(* children members of every other object stay None.  After get_hierarchy  *)
(* with an empty list of pairs, parent and children are None on every      *)
(* object.                                                                 *)
(***************************************************************************)
\* the image of object i holds an object of the label
ImageHolds(i, label) ==
    \E j \in Ids : SameImage(i, j) /\ all[j].label = label

C25_AllocationFrame ==
    HierarchyDone =>
        \A i \in Ids :
            /\ all[i].parent # None <=>
                  \E pair \in PairsDone :
                      all[i].label = pair[1] /\ ImageHolds(i, pair[2])
            /\ all[i].children # None <=>
                  \E pair \in PairsDone :
                      all[i].label = pair[2] /\ ImageHolds(i, pair[1])

\* after find_parent(Object, Group), the Object of an image without a Group
\* has no parent dict, beside an Object of an image with a Group that has
\* one and a Group that has a children dict and no parent dict
C25_Witness ==
    /\ HierarchyDone
    /\ child_parent_list = << <<"Object", "Group">> >>
    /\ \E i, j, g \in Ids :
          /\ all[i].label = "Object" /\ all[j].label = "Object"
          /\ all[g].label = "Group"
          /\ SameImage(i, g) /\ ~ImageHolds(j, "Group")
          /\ all[i].parent # None /\ all[i].children = None
          /\ all[j].parent = None /\ all[j].children = None
          /\ all[g].children # None /\ all[g].parent = None

(***************************************************************************)
(* C26: find_duplicates and find_parent never add, remove or change an     *)
(* overlap fact; find_parent never changes a duplicate flag; and no pass   *)
(* changes the image, label, index or coordinates of an object, or which   *)
(* objects a bucket holds and in which order.                              *)
(***************************************************************************)
\* what the constructor computes of an object
Constructed(o) ==
    [imageID |-> o.imageID, label |-> o.label, index |-> o.index,
     x0 |-> o.x0, x1 |-> o.x1, y0 |-> o.y0, y1 |-> o.y1,
     w |-> o.w, h |-> o.h, xc |-> o.xc, yc |-> o.yc, area |-> o.area]

SameObjectsAndBuckets ==
    /\ Len(all') = Len(all)
    /\ \A i \in Ids : Constructed(all'[i]) = Constructed(all[i])
    /\ buckets' = buckets
    /\ \A k \in 1..Len(buckets) :
          ObjectList(all', buckets[k][1], buckets[k][2])
              = ObjectList(all, buckets[k][1], buckets[k][2])

PassFrame ==
    /\ FindOverlappingObjects => SameObjectsAndBuckets
    /\ FindDuplicates =>
          /\ SameObjectsAndBuckets
          /\ \A i \in Ids : all'[i].overlap = all[i].overlap
    /\ \A child_label, parent_label \in Labels :
          FindParent(child_label, parent_label) =>
              /\ SameObjectsAndBuckets
              /\ \A i \in Ids : /\ all'[i].overlap = all[i].overlap
                                /\ all'[i].duplicate = all[i].duplicate

C26_PassFrame == [][PassFrame]_vars

\* find_parent has assigned, among two candidates of which the second in
\* the child's list of facts is the only one that contains the child, that
\* one, and the list is in the order the overlap pass left it in
C26_Witness ==
    /\ HierarchyDone
    /\ \E c, p \in Ids :
          /\ IsParentOf(p, c)
          /\ LET list == all[c].overlap[1][all[p].label]
             IN  /\ Len(list) = 2
                 /\ list[1].center_of_self /\ ~list[1].self_inside_other
                 /\ list[2].obj = p /\ list[2].self_inside_other

(***************************************************************************)
(* C27: what find_parent decides for a child depends neither on the IoM    *)
(* values of its candidates nor on their order in the child's list of      *)
(* facts: the child gets the one candidate that fully contains it when     *)
(* exactly one does, the single candidate when none fully contains it and  *)
(* there is exactly one candidate, and no parent otherwise.                *)
(***************************************************************************)
\* IoM values to give the candidates, in units of 10^-5
IomValues == {0, 50000, 100000}

\* the candidates in the order f and with the IoM values v
Varied(list, f, v) ==
    [k \in 1..Len(list) |-> [list[f[k]] EXCEPT !.iom = v[k]]]

\* the parent that lines 351 to 359 choose among candidates
Chosen(list) ==
    LET left == Surviving(list)
    IN  IF Len(left) = 1 THEN Some(left[1].obj) ELSE None

\* the parent the rule names among candidates
Named(list) ==
    LET full == {k \in 1..Len(list) : list[k].self_inside_other}
    IN  IF Cardinality(full) = 1
        THEN Some(list[CHOOSE k \in full : TRUE].obj)
        ELSE IF full = {} /\ Len(list) = 1 THEN Some(list[1].obj)
        ELSE None

C27_OrderAndIomFree ==
    HierarchyDone =>
        \A pair \in PairsDone : \A c \in Ids :
            (ChildOf(c, pair) /\ ~IsDuplicate(c)) =>
                LET list == Candidates(all, all[c], pair[2])
                    n    == Len(list)
                IN  /\ \A f \in ListOrders(n) : \A v \in [1..n -> IomValues] :
                          Chosen(Varied(list, f, v)) = Named(list)
                    /\ IF Named(list) = None
                       THEN NoParentEntry(c, pair[2])
                       ELSE HasParent(c, pair[2], all[Named(list)[1]].index)

\* a child with two candidates, of which only the second of its list fully
\* contains it, is given that one
C27_Witness ==
    /\ HierarchyDone
    /\ \E pair \in PairsDone : \E c \in Ids :
          /\ ChildOf(c, pair) /\ ~IsDuplicate(c)
          /\ LET list == Candidates(all, all[c], pair[2])
             IN  /\ Len(list) = 2
                 /\ ~list[1].self_inside_other /\ list[2].self_inside_other
                 /\ Named(list) = Some(list[2].obj)
                 /\ HasParent(c, pair[2], all[list[2].obj].index)

(***************************************************************************)
(* C28: after find_duplicates, from every object flagged duplicate a chain *)
(* of objects of its image and label leads to one that is not a duplicate, *)
(* along which the index strictly increases and each object has an iou     *)
(* above 0.5 with the next; the object of highest index of a bucket is     *)
(* never flagged, so that no bucket has all its objects flagged.           *)
(***************************************************************************)
\* a chain from object i to an object that is kept
RECURSIVE ChainToKept(_)
ChainToKept(i) ==
    \E j \in Partners(i) :
        /\ all[j].index > all[i].index
        /\ all[j].duplicate = Some(FALSE) \/ ChainToKept(j)

LastOfBucket(i) ==
    \A j \in Ids : SameBucket(i, j) => all[j].index <= all[i].index

C28_ChainToKept ==
    DuplicatesFound =>
        \A i \in Ids :
            /\ IsDuplicate(i) => ChainToKept(i)
            /\ LastOfBucket(i) => all[i].duplicate = Some(FALSE)
            /\ \E j \in Ids :
                  (j = i \/ SameBucket(i, j)) /\ all[j].duplicate = Some(FALSE)

\* a flagged object none of whose partners is kept: its chain to the last
\* object of the bucket goes over a flagged one
C28_Witness ==
    /\ DuplicatesFound
    /\ \E i \in Ids :
          /\ IsDuplicate(i)
          /\ KeptPartners(i) = {}
          /\ ChainToKept(i)
          /\ \E j \in Ids : SameBucket(i, j) /\ LastOfBucket(j)
                              /\ ~Redundant(i, j)

(***************************************************************************)
(* C29: after get_hierarchy with any list of pairs, lists with both        *)
(* (A, B) and (B, A) or with (A, A) included, the parent relation has no   *)
(* cycle: no object is its own parent, no two objects are each other's     *)
(* parent, and no object is its own ancestor.                              *)
(***************************************************************************)
\* object p is a parent of object c, which may be p itself
ParentRelation(p, c) ==
    SameImage(p, c) /\ HasParent(c, all[p].label, all[p].index)

\* the parents of the objects of a set, and the ancestors within n steps
ParentsOf(set) == {p \in Ids : \E c \in set : ParentRelation(p, c)}

RECURSIVE AncestorsWithin(_, _)
AncestorsWithin(set, n) ==
    IF n = 0 THEN {}
    ELSE ParentsOf(set) \cup AncestorsWithin(ParentsOf(set), n - 1)

Ancestors(i) == AncestorsWithin({i}, Len(all))

C29_AsStated ==
    HierarchyDone => \A i \in Ids : i \notin Ancestors(i)

(***************************************************************************)
(* C30: after find_overlapping_objects, every list overlap[L] of an object *)
(* is in strictly increasing order of the index of the other object, in    *)
(* whatever order objects of different labels were constructed.            *)
(***************************************************************************)
C30_FactsInIndexOrder ==
    OverlapsFound =>
        \A i \in Ids : \A label \in DOMAIN all[i].overlap[1] :
            LET list == all[i].overlap[1][label]
            IN  \A k \in 1..Len(list) :
                    /\ all[list[k].obj].label = label
                    /\ list[k].index = all[list[k].obj].index
                    /\ k > 1 => list[k - 1].index < list[k].index

\* an object constructed between two objects of another label holds its
\* facts about them in the order of their indices
C30_Witness ==
    /\ OverlapsFound
    /\ \E i \in Ids :
          /\ 1 < i /\ i < Len(all)
          /\ all[i - 1].label # all[i].label
          /\ SameBucket(i - 1, i + 1)
          /\ all[i - 1].label \in DOMAIN all[i].overlap[1]
          /\ LET list == all[i].overlap[1][all[i - 1].label]
             IN  /\ Len(list) = 2
                 /\ list[1].obj = i - 1 /\ list[2].obj = i + 1
                 /\ list[1].index = 0 /\ list[2].index = 1

=============================================================================
